---- MODULE Spec2Model ----
(***************************************************************************)
(* Model of the MCP tool dispatcher of src/mcp_server.py (call_tool and    *)
(* its HTTP helpers _post_json / _get_json).                               *)
(*                                                                         *)
(* call_tool is a coroutine with one suspension point (the await on the    *)
(* backend HTTP call).  Each invocation is therefore modelled by a start   *)
(* action (from entry up to the await, or up to the return when no request *)
(* is made) and a completion action (from the backend's answer to the      *)
(* return).  Several invocations may be suspended at the same time.        *)
(***************************************************************************)
EXTENDS Integers, Sequences, FiniteSets, TLC

(* ------------------------------ values -------------------------------- *)
\* Python / JSON values.  Strings are sequences of one-character strings so
\* that str.strip() can be computed.
Null == [t |-> "null"]
Str(s) == [t |-> "str", s |-> s]
Num(n) == [t |-> "num", n |-> n]
Obj(o) == [t |-> "obj", o |-> o]
\* A string literal of the source that is only passed along.
Lit(text) == [t |-> "lit", text |-> text]

IsStr(v) == v.t = "str"

Whitespace == {" "}

RECURSIVE LStrip(_)
LStrip(s) ==
  IF s # <<>> /\ Head(s) \in Whitespace THEN LStrip(Tail(s)) ELSE s

RECURSIVE RStrip(_)
RStrip(s) ==
  IF s # <<>> /\ s[Len(s)] \in Whitespace
    THEN RStrip(SubSeq(s, 1, Len(s) - 1))
    ELSE s

\* Variant of Strip that leaves trailing whitespace.
Strip_LeftOnly(s) == LStrip(s)

\* str.strip()
Strip(s) == RStrip(LStrip(s))

\* Python truthiness of a value (the left operand of `x or ""`).
Truthy(v) ==
  CASE v.t = "null" -> FALSE
    [] v.t = "str" -> v.s # <<>>
    [] v.t = "num" -> v.n # 0
    [] OTHER -> TRUE

\* dict.get(key, default): a dict is a function from its keys to values.
Get(args, key, default) ==
  IF key \in DOMAIN args THEN args[key] ELSE default

\* The empty dict {}.
EmptyDict == [k \in {} |-> Null]

\* Decimal rendering of a non-negative integer inside an f-string.
DigitChar(d) ==
  CASE d = 0 -> "0" [] d = 1 -> "1" [] d = 2 -> "2" [] d = 3 -> "3"
    [] d = 4 -> "4" [] d = 5 -> "5" [] d = 6 -> "6" [] d = 7 -> "7"
    [] d = 8 -> "8" [] d = 9 -> "9"

RECURSIVE Digits(_)
Digits(n) ==
  IF n < 10 THEN <<DigitChar(n)>>
  ELSE Append(Digits(n \div 10), DigitChar(n % 10))

(* --------------------------- tool results ----------------------------- *)
\* CallToolResult(content=[{"type": "json", "json": data}])
JsonResult(data) ==
  [isError |-> FALSE, content |-> <<[type |-> "json", json |-> data]>>]

\* CallToolResult(isError=True, content=[{"type": "text", "text": text}])
\* A text is the sequence of the pieces the f-string concatenates.
ErrorResult(text) ==
  [isError |-> TRUE, content |-> <<[type |-> "text", text |-> text]>>]

WarningPayload ==
  Obj([warning |-> Lit("Sin parametro company. Llama primero a inicializar_sesion.")])

(* ----------------------------- exceptions ----------------------------- *)
HTTPStatusError(response) ==
  [type |-> "HTTPStatusError", response |-> response, msg |-> "status error"]

AttributeError(msg) == [type |-> "AttributeError", msg |-> msg]

\* Exception classes that derive from Exception (all that the HTTP client,
\* the JSON decoder and attribute access can raise).
ExceptionTypes ==
  {"HTTPStatusError", "AttributeError", "ConnectError", "ReadTimeout",
   "JSONDecodeError"}

NoStripMsg(v) ==
  IF v.t = "null" THEN "'NoneType' object has no attribute 'strip'"
  ELSE "'int' object has no attribute 'strip'"

(* ---------------------------- HTTP helpers ---------------------------- *)
\* The request sent by _post_json: client.post(url, json=payload).  No
\* header is passed, so the set of caller-supplied headers is empty.
PostRequest(path, payload) ==
  [method |-> "POST", path |-> path, json |-> payload, params |-> EmptyDict,
   headers |-> {}]

\* Variant of GetRequest that attaches a session header to the request.
GetRequest_WithHeader(path, params) ==
  [method |-> "GET", path |-> path, json |-> EmptyDict, params |-> params,
   headers |-> {[name |-> "X-Session-Id", value |-> Str(<<"s", "1">>)]}]

\* The request sent by _get_json: client.get(url, params=params).
GetRequest(path, params) ==
  [method |-> "GET", path |-> path, json |-> EmptyDict, params |-> params,
   headers |-> {}]

NoRequest == [method |-> "none"]

\* r.raise_for_status(): raises unless the status is 2xx (4xx and 5xx raise
\* in every version of the HTTP client).
IsSuccess(status) == status >= 200 /\ status <= 299

NotJSON == [t |-> "invalid"]

\* What _post_json / _get_json do once the response r has arrived:
\* r.raise_for_status(); return r.json()
ReadJson(r) ==
  IF ~IsSuccess(r.status)
    THEN [kind |-> "raise", exc |-> HTTPStatusError(r)]
  ELSE IF r.json = NotJSON
    THEN [kind |-> "raise",
          exc |-> [type |-> "JSONDecodeError",
                   msg |-> "Expecting value: line 1 column 1 (char 0)"]]
  ELSE [kind |-> "return", data |-> r.json]

(* ----------------------------- dispatcher ----------------------------- *)
INICIALIZAR == "inicializar_sesion"
LISTAR == "listar_reportes"
COLUMNAS == "obtener_columnas"
CONSULTAR == "consultar_reporte"

\* args = req.arguments or {}
ArgsOf(arguments) == IF arguments = Null THEN EmptyDict ELSE arguments

\* Variant of StartInicializar that sends the company without .strip().
StartInicializar_NoStrip(args) ==
  LET v == Get(args, "company", Str(<<>>)) IN
  IF IsStr(v)
    THEN [kind |-> "await",
          request |-> PostRequest("/inicializar_sesion", [company |-> v])]
    ELSE [kind |-> "raise", exc |-> AttributeError(NoStripMsg(v))]

\* Branch `if name == "inicializar_sesion"` up to the await.
StartInicializar(args) ==
  LET v == Get(args, "company", Str(<<>>)) IN
  IF IsStr(v)
    THEN [kind |-> "await",
          request |-> PostRequest("/inicializar_sesion",
                                  [company |-> Str(Strip(v.s))])]
    ELSE [kind |-> "raise", exc |-> AttributeError(NoStripMsg(v))]

\* Variant of StartListar without the `if company` test: it always posts.
StartListar_AlwaysPosts(args) ==
  LET g == Get(args, "company", Null)
      v == IF Truthy(g) THEN g ELSE Str(<<>>)
  IN
  IF ~IsStr(v)
    THEN [kind |-> "raise", exc |-> AttributeError(NoStripMsg(v))]
  ELSE [kind |-> "await",
        request |-> PostRequest("/inicializar_sesion",
                                [company |-> Str(Strip(v.s))])]

\* Variant of StartListar that flags the warning as an error result.
StartListar_WarningIsError(args) ==
  LET g == Get(args, "company", Null)
      v == IF Truthy(g) THEN g ELSE Str(<<>>)
  IN
  IF ~IsStr(v)
    THEN [kind |-> "raise", exc |-> AttributeError(NoStripMsg(v))]
  ELSE IF Strip(v.s) # <<>>
    THEN [kind |-> "await",
          request |-> PostRequest("/inicializar_sesion",
                                  [company |-> Str(Strip(v.s))])]
  ELSE [kind |-> "return",
        result |-> [isError |-> TRUE,
                    content |-> <<[type |-> "json", json |-> WarningPayload]>>]]

\* Branch `if name == "listar_reportes"` up to the await or the return.
StartListar(args) ==
  LET g == Get(args, "company", Null)
      v == IF Truthy(g) THEN g ELSE Str(<<>>)
  IN
  IF ~IsStr(v)
    THEN [kind |-> "raise", exc |-> AttributeError(NoStripMsg(v))]
  ELSE IF Strip(v.s) # <<>>
    THEN [kind |-> "await",
          request |-> PostRequest("/inicializar_sesion",
                                  [company |-> Str(Strip(v.s))])]
  ELSE [kind |-> "return", result |-> JsonResult(WarningPayload)]

\* Variant of StartColumnas that does not forward the company argument.
StartColumnas_DropsCompany(args) ==
  [kind |-> "await",
   request |-> GetRequest("/columnas",
                          [objectid |-> Get(args, "objectid", Null),
                           company |-> Null])]

\* Branch `if name == "obtener_columnas"` up to the await.
StartColumnas(args) ==
  [kind |-> "await",
   request |-> GetRequest("/columnas",
                          [objectid |-> Get(args, "objectid", Null),
                           company |-> Get(args, "company", Null)])]

\* Variant of StartConsultar that adds the company to the request body.
StartConsultar_SendsCompany(args) ==
  [kind |-> "await",
   request |-> PostRequest("/consultar_reporte",
                           [pregunta |-> Get(args, "pregunta", Str(<<>>)),
                            company |-> Get(args, "company", Null)])]

\* Branch `if name == "consultar_reporte"` up to the await.
StartConsultar(args) ==
  [kind |-> "await",
   request |-> PostRequest("/consultar_reporte",
                           [pregunta |-> Get(args, "pregunta", Str(<<>>))])]

\* Variant of StartUnsupported whose message leaves the tool name out.
StartUnsupported_NoName(name) ==
  [kind |-> "return", result |-> ErrorResult(<<"Tool no soportada">>)]

\* The fall-through return for any other tool name.
StartUnsupported(name) ==
  [kind |-> "return",
   result |-> ErrorResult(<<"Tool no soportada: ", name>>)]

\* The body of the try block from entry up to its first await or return.
Start(name, args) ==
  CASE name = INICIALIZAR -> StartInicializar(args)
    [] name = LISTAR -> StartListar(args)
    [] name = COLUMNAS -> StartColumnas(args)
    [] name = CONSULTAR -> StartConsultar(args)
    [] OTHER -> StartUnsupported(name)

Uncaught(exc) == [uncaught |-> exc.type]

\* Variant of Handle without the `except httpx.HTTPStatusError` clause.
Handle_GenericOnly(exc) ==
  IF exc.type \in ExceptionTypes
    THEN ErrorResult(<<"Error: ", exc.msg>>)
  ELSE Uncaught(exc)

\* Variant of Handle without the `except Exception` clause.
Handle_OnlyHttpStatus(exc) ==
  IF exc.type = "HTTPStatusError"
    THEN ErrorResult(<<"HTTP ">> \o Digits(exc.response.status)
                     \o <<": ", exc.response.text>>)
  ELSE Uncaught(exc)

\* The two except clauses of call_tool.
Handle(exc) ==
  IF exc.type = "HTTPStatusError"
    THEN ErrorResult(<<"HTTP ">> \o Digits(exc.response.status)
                     \o <<": ", exc.response.text>>)
  ELSE IF exc.type \in ExceptionTypes
    THEN ErrorResult(<<"Error: ", exc.msg>>)
  ELSE Uncaught(exc)

\* Variant of Finish that adds a locally made session_id to a response
\* that has none.
Finish_SynthesizesId(outcome) ==
  IF outcome.kind = "return"
    THEN IF outcome.data.t = "obj" /\ "session_id" \notin DOMAIN outcome.data.o
           THEN JsonResult(Obj([session_id |-> Str(<<"u", "1">>)] @@ outcome.data.o))
           ELSE JsonResult(outcome.data)
  ELSE Handle(outcome.exc)

\* After the await in any of the four branches: the helper's outcome is
\* returned as a json result, or its exception is handled.
Finish(outcome) ==
  IF outcome.kind = "return" THEN JsonResult(outcome.data)
  ELSE Handle(outcome.exc)

(* ------------------------------- inputs ------------------------------- *)
\* Largest number of whitespace characters around a company argument.
MaxPad == 1

EN == <<"E", "N">>
ZZ == <<"Z", "Z">>

RECURSIVE Spaces(_)
Spaces(n) == IF n = 0 THEN <<>> ELSE <<" ">> \o Spaces(n - 1)

Pads == {Spaces(n) : n \in 0..MaxPad}

CompanyStrings == {Str(l \o core \o r) : l \in Pads, r \in Pads, core \in {<<>>, EN}}

CompanyValues == CompanyStrings \cup {Null, Num(0), Num(7)}

OtherTools == {"exportar_reporte"}

\* The values of req.arguments tried for each tool name.
ArgumentsFor(name) ==
  CASE name \in {INICIALIZAR, LISTAR} ->
         {Null, EmptyDict} \cup {[company |-> v] : v \in CompanyValues}
    [] name = COLUMNAS ->
         {Null, [objectid |-> Str(<<"X">>)], [company |-> Str(EN)]}
         \cup {[objectid |-> Str(<<"X">>), company |-> v] : v \in {Null, Str(EN), Str(ZZ)}}
    [] name = CONSULTAR ->
         {Null, EmptyDict, [pregunta |-> Null], [pregunta |-> Str(<<"Q">>)]}
    [] OTHER -> {Null, [company |-> Str(EN)]}

SalesReport == Obj([reportname |-> Str(<<"S">>), objectid |-> Str(<<"R", "1">>)])
StockReport == Obj([reportname |-> Str(<<"T">>), objectid |-> Str(<<"R", "2">>)])

\* Bodies the backend may answer a successful request with.
InitWithId ==
  Obj([company |-> Str(EN), session_id |-> Str(<<"s", "1">>),
       available_queries |-> <<SalesReport, StockReport>>])
InitWithoutId == Obj([company |-> Str(EN), available_queries |-> <<SalesReport>>])
OtherData == Obj([rows |-> <<Num(1), Num(2)>>])

Response(status, text, json) == [status |-> status, text |-> text, json |-> json]

\* The answers of the backend to a request: a JSON body fitting the
\* endpoint, a body that is not JSON, or an error status with a text body.
ResponsesFor(request) ==
  (IF request.path = "/inicializar_sesion"
     THEN {Response(200, "{init with session_id}", InitWithId),
           Response(200, "{init without session_id}", InitWithoutId)}
     ELSE {Response(200, "{rows}", OtherData)})
  \cup {Response(200, "<html>", NotJSON),
        Response(404, "not found", NotJSON),
        Response(500, "internal error", NotJSON)}

\* Exceptions the HTTP client raises when no response arrives.
TransportFailures ==
  {[type |-> "ConnectError", msg |-> "All connection attempts failed"],
   [type |-> "ReadTimeout", msg |-> ""]}

(* ------------------------------- state -------------------------------- *)
\* calls[c]: the invocation of call_tool running in task c.
\* lastInit: history variable, the latest successful POST /inicializar_sesion
\*           (the tool that made it, the company it sent, the data it
\*           returned); the code itself keeps nothing.
\* globals:  the module-level names of the process that hold data.
VARIABLES calls, lastInit, globals

vars == <<calls, lastInit, globals>>

Idle == [pc |-> "idle"]
NoSession == [t |-> "none"]
NoReply == [type |-> "none"]
NoResult == [pending |-> TRUE]

Missing == [t |-> "missing"]

\* Field k of a JSON object, Missing when the object has no such field.
Field(d, k) == IF d.t = "obj" /\ k \in DOMAIN d.o THEN d.o[k] ELSE Missing

\* JSON object d has a field k.
Has(d, k) == d.t = "obj" /\ k \in DOMAIN d.o

\* JSON objects a and b agree on field k (both lack it, or hold the same).
SameField(a, b, k) ==
  /\ Has(a, k) <=> Has(b, k)
  /\ Has(a, k) => a.o[k] = b.o[k]

IsError(result) == "isError" \in DOMAIN result /\ result.isError
IsToolResult(result) == DOMAIN result = {"isError", "content"}

\* One conversation: tool calls are made one after the other.
Sequential == {1}

\* Two invocations that may be suspended at the same time.
Tasks == {1, 2}

\* APP_API_BASE and TIMEOUT, read once at import.
InitialGlobals ==
  [APP_API_BASE |-> Lit("https://u4genius-api.onrender.com"),
   TIMEOUT |-> Num(25)]

Init ==
  /\ calls = [c \in Sequential |-> Idle]
  /\ lastInit = NoSession
  /\ globals = InitialGlobals

InitConc ==
  /\ calls = [c \in Tasks |-> Idle]
  /\ lastInit = NoSession
  /\ globals = InitialGlobals

\* Variant of GlobalsAfter that keeps the data of a successful session
\* initialization in module-level names.
GlobalsAfter_StoresInit(g, name, result) ==
  IF /\ name \in {INICIALIZAR, LISTAR}
     /\ IsToolResult(result)
     /\ ~result.isError
     /\ result.content[1].json.t = "obj"
    THEN result.content[1].json.o @@ g
    ELSE g

\* Variant of GlobalsAfter that resets the company when a call fails.
GlobalsAfter_ClearsOnError(g, name, result) ==
  IF IsError(result) THEN [company |-> Null] @@ g ELSE g

\* Variant of GlobalsAfter that keeps the data of the latest json result,
\* of whatever tool, as the available queries.
GlobalsAfter_CachesLastResult(g, name, result) ==
  IF IsToolResult(result) /\ ~result.isError
    THEN [available_queries |-> result.content[1].json] @@ g
    ELSE g

\* The module-level data after call_tool has produced result: call_tool
\* binds only local names (name, args, data, company), so it is g.
GlobalsAfter(g, name, result) == g

\* Variant of Invoke that fills a missing company argument of
\* obtener_columnas with the company of the latest session initialization.
Invoke_SessionFallback(c, name, arguments) ==
  /\ calls[c].pc \in {"idle", "done"}
  /\ LET given == ArgsOf(arguments)
         args == IF name = COLUMNAS /\ "company" \notin DOMAIN given
                    /\ lastInit # NoSession
                   THEN [company |-> lastInit.company] @@ given
                   ELSE given
         s == Start(name, args)
         base == [name |-> name, arguments |-> arguments, prior |-> lastInit,
                  reply |-> NoReply]
         result == IF s.kind = "return" THEN s.result ELSE Handle(s.exc)
     IN IF s.kind = "await"
          THEN /\ calls' = [calls EXCEPT ![c] =
                    base @@ [pc |-> "awaiting", request |-> s.request,
                             nreq |-> 1, result |-> NoResult]]
               /\ UNCHANGED globals
          ELSE /\ calls' = [calls EXCEPT ![c] =
                    base @@ [pc |-> "done", request |-> NoRequest,
                             nreq |-> 0, result |-> result]]
               /\ globals' = GlobalsAfter(globals, name, result)
  /\ UNCHANGED lastInit

\* Entry of call_tool(req) in task c, run up to the await or the return.
Invoke(c, name, arguments) ==
  /\ calls[c].pc \in {"idle", "done"}
  /\ LET s == Start(name, ArgsOf(arguments))
         base == [name |-> name, arguments |-> arguments, prior |-> lastInit,
                  reply |-> NoReply]
         result == IF s.kind = "return" THEN s.result ELSE Handle(s.exc)
     IN IF s.kind = "await"
          THEN /\ calls' = [calls EXCEPT ![c] =
                    base @@ [pc |-> "awaiting", request |-> s.request,
                             nreq |-> 1, result |-> NoResult]]
               /\ UNCHANGED globals
          ELSE /\ calls' = [calls EXCEPT ![c] =
                    base @@ [pc |-> "done", request |-> NoRequest,
                             nreq |-> 0, result |-> result]]
               /\ globals' = GlobalsAfter(globals, name, result)
  /\ UNCHANGED lastInit

InicializarSesion(c) == \E a \in ArgumentsFor(INICIALIZAR) : Invoke(c, INICIALIZAR, a)
ListarReportes(c) == \E a \in ArgumentsFor(LISTAR) : Invoke(c, LISTAR, a)
ObtenerColumnas(c) == \E a \in ArgumentsFor(COLUMNAS) : Invoke(c, COLUMNAS, a)
ConsultarReporte(c) == \E a \in ArgumentsFor(CONSULTAR) : Invoke(c, CONSULTAR, a)
ToolNoSoportada(c) ==
  \E n \in OtherTools : \E a \in ArgumentsFor(n) : Invoke(c, n, a)

\* Variant of Resume that puts the reports of the previous session
\* initialization in front of the ones just received.
Resume_Accumulates(c, reply, outcome) ==
  /\ calls[c].pc = "awaiting"
  /\ LET fresh == Finish(outcome)
         merge == /\ IsToolResult(fresh) /\ ~fresh.isError
                  /\ lastInit # NoSession
                  /\ Has(fresh.content[1].json, "available_queries")
                  /\ Has(lastInit.data, "available_queries")
         result == IF merge
                     THEN JsonResult(Obj([fresh.content[1].json.o EXCEPT
                            !.available_queries =
                               lastInit.data.o.available_queries \o @]))
                     ELSE fresh
     IN
     /\ calls' = [calls EXCEPT ![c] =
          [@ EXCEPT !.pc = "done", !.reply = reply, !.result = result]]
     /\ globals' = GlobalsAfter(globals, calls[c].name, result)
     /\ lastInit' =
          IF calls[c].request.path = "/inicializar_sesion" /\ IsToolResult(result)
             /\ ~result.isError
            THEN [tool |-> calls[c].name,
                  company |-> calls[c].request.json.company,
                  data |-> outcome.data]
            ELSE lastInit

\* Variant of Resume that sends the request once more when it failed.
Resume_RetriesOnce(c, reply, outcome) ==
  /\ calls[c].pc = "awaiting"
  /\ IF outcome.kind = "raise" /\ calls[c].nreq < 2
       THEN /\ calls' = [calls EXCEPT ![c] = [@ EXCEPT !.nreq = @ + 1]]
            /\ UNCHANGED <<globals, lastInit>>
       ELSE LET result == Finish(outcome) IN
            /\ calls' = [calls EXCEPT ![c] =
                 [@ EXCEPT !.pc = "done", !.reply = reply, !.result = result]]
            /\ globals' = GlobalsAfter(globals, calls[c].name, result)
            /\ lastInit' =
                 IF calls[c].request.path = "/inicializar_sesion"
                    /\ IsToolResult(result) /\ ~result.isError
                   THEN [tool |-> calls[c].name,
                         company |-> calls[c].request.json.company,
                         data |-> outcome.data]
                   ELSE lastInit

\* The rest of call_tool in task c once the awaited helper has an outcome.
Resume(c, reply, outcome) ==
  /\ calls[c].pc = "awaiting"
  /\ LET result == Finish(outcome) IN
     /\ calls' = [calls EXCEPT ![c] =
          [@ EXCEPT !.pc = "done", !.reply = reply, !.result = result]]
     /\ globals' = GlobalsAfter(globals, calls[c].name, result)
     /\ lastInit' =
          IF calls[c].request.path = "/inicializar_sesion" /\ IsToolResult(result)
             /\ ~result.isError
            THEN [tool |-> calls[c].name,
                  company |-> calls[c].request.json.company,
                  data |-> outcome.data]
            ELSE lastInit

\* The backend answers the request of task c.
HttpResponse(c) ==
  /\ calls[c].pc = "awaiting"
  /\ \E r \in ResponsesFor(calls[c].request) :
       Resume(c, [type |-> "response", response |-> r], ReadJson(r))

\* The request of task c fails without a response (network error, timeout).
HttpFailure(c) ==
  /\ calls[c].pc = "awaiting"
  /\ \E f \in TransportFailures :
       Resume(c, [type |-> "failure", exc |-> f], [kind |-> "raise", exc |-> f])

Next ==
  \E c \in DOMAIN calls :
    \/ InicializarSesion(c)
    \/ ListarReportes(c)
    \/ ObtenerColumnas(c)
    \/ ConsultarReporte(c)
    \/ ToolNoSoportada(c)
    \/ HttpResponse(c)
    \/ HttpFailure(c)

Spec == Init /\ [][Next]_vars

\* Two invocations, each followed from its entry to its return; the second
\* may start before or after the first has returned.
NextConc ==
  /\ Next
  /\ \A c \in DOMAIN calls : calls[c].pc = "done" => calls'[c] = calls[c]

SpecConc == InitConc /\ [][NextConc]_vars

\* Every awaited request ends: the backend answers, the connection fails or
\* the client's timeout (TIMEOUT) expires.
FairSpec ==
  Spec /\ \A c \in Sequential : WF_vars(HttpResponse(c) \/ HttpFailure(c))

(* ------------------------- auxiliary predicates ----------------------- *)
Started(c) == calls[c].pc # "idle"
Done(c) == calls[c].pc = "done"
Sent(c) == calls[c].request # NoRequest

NoCompanyArg(arguments) == "company" \notin DOMAIN ArgsOf(arguments)

EmptyOrAbsentCompany(arguments) ==
  \/ NoCompanyArg(arguments)
  \/ ArgsOf(arguments).company = Str(<<>>)

IsJsonResult(result) ==
  IsToolResult(result) /\ ~result.isError /\ result.content[1].type = "json"

IsTextError(result) ==
  IsToolResult(result) /\ result.isError /\ result.content[1].type = "text"

\* sub occurs in text as a contiguous run of pieces.
HasSub(text, sub) ==
  \E i \in 0..(Len(text) - Len(sub)) : SubSeq(text, i + 1, i + Len(sub)) = sub

SessionFields == {"company", "session_id", "available_queries"}

\* The call of task c was invoked after initialize_session succeeded for a
\* non-empty company.
AfterInit(c) ==
  /\ calls[c].prior # NoSession
  /\ calls[c].prior.tool = INICIALIZAR
  /\ calls[c].prior.company # Str(<<>>)

SessionIdKnown(c) ==
  AfterInit(c) /\ Field(calls[c].prior.data, "session_id") # Missing

BackendFailed(reply) ==
  \/ reply.type = "failure"
  \/ /\ reply.type = "response"
     /\ (~IsSuccess(reply.response.status) \/ reply.response.json = NotJSON)

C2_EmptyCompanyRejected ==
  \A c \in DOMAIN calls :
    (Started(c) /\ calls[c].name = INICIALIZAR
       /\ EmptyOrAbsentCompany(calls[c].arguments))
    => /\ ~Sent(c)
       /\ IsError(calls[c].result)
       /\ lastInit = calls[c].prior

\* C3: get_columns without a company argument, when no initialize_session
\* has succeeded before, returns an error result and sends no backend
\* request.
C3_ColumnsWithoutCompanyRejected ==
  \A c \in DOMAIN calls :
    (Started(c) /\ calls[c].name = COLUMNAS /\ NoCompanyArg(calls[c].arguments)
       /\ "objectid" \in DOMAIN ArgsOf(calls[c].arguments)
       /\ calls[c].prior = NoSession)
    => /\ ~Sent(c)
       /\ IsError(calls[c].result)

C5_ListBeforeInitWarns ==
  \A c \in DOMAIN calls :
    (Started(c) /\ calls[c].name = LISTAR /\ NoCompanyArg(calls[c].arguments)
       /\ calls[c].prior = NoSession)
    => /\ Done(c)
       /\ ~Sent(c)
       /\ IsToolResult(calls[c].result)
       /\ ~calls[c].result.isError
       /\ Field(calls[c].result.content[1].json, "warning") # Missing

C5_Witness ==
  \E c \in DOMAIN calls :
    /\ Done(c) /\ calls[c].name = LISTAR /\ calls[c].arguments = EmptyDict
    /\ calls[c].prior = NoSession /\ lastInit = NoSession

\* C6 (as stated): after a successful initialize_session the session_id of
\* the result is a non-empty string and is the session_id kept for the
\* session, also when the backend response has no session_id.
C6_SessionIdAlwaysPresent ==
  \A c \in DOMAIN calls :
    (Done(c) /\ calls[c].name = INICIALIZAR /\ IsJsonResult(calls[c].result))
    => LET sid == Field(calls[c].result.content[1].json, "session_id") IN
       /\ sid.t = "str"
       /\ sid.s # <<>>
       /\ lastInit # NoSession
       /\ Field(lastInit.data, "session_id") = sid

\* C6 (amended): after a successful initialize_session the result is the
\* backend's response unchanged: its session_id is the one of the response,
\* and it has no session_id when the response has none.
C6_SessionIdFromBackendOnly ==
  \A c \in DOMAIN calls :
    (Done(c) /\ calls[c].name = INICIALIZAR /\ IsJsonResult(calls[c].result))
    => /\ calls[c].reply.type = "response"
       /\ calls[c].result.content[1].json = calls[c].reply.response.json
       /\ Field(calls[c].result.content[1].json, "session_id")
            = Field(calls[c].reply.response.json, "session_id")

C6_Witness ==
  \E c \in DOMAIN calls :
    /\ Done(c) /\ calls[c].name = INICIALIZAR /\ IsJsonResult(calls[c].result)
    /\ calls[c].request.json.company = Str(EN)
    /\ calls[c].reply.response.json = InitWithoutId
    /\ Field(calls[c].result.content[1].json, "session_id") = Missing

\* C7: when the backend answers a tool's request with a non-success status
\* S and body B, the tool result is an error result whose text contains S
\* (in decimal) and B.
C7_HttpErrorCarriesStatusAndBody ==
  \A c \in DOMAIN calls :
    (Done(c) /\ calls[c].reply.type = "response"
       /\ ~IsSuccess(calls[c].reply.response.status))
    => /\ IsTextError(calls[c].result)
       /\ HasSub(calls[c].result.content[1].text,
                 Digits(calls[c].reply.response.status))
       /\ HasSub(calls[c].result.content[1].text,
                 <<calls[c].reply.response.text>>)

C7_Witness ==
  \E c \in DOMAIN calls :
    /\ Done(c) /\ calls[c].name = CONSULTAR
    /\ calls[c].reply.type = "response"
    /\ calls[c].reply.response.status = 500
    /\ HasSub(calls[c].result.content[1].text, <<"5", "0", "0">>)
    /\ HasSub(calls[c].result.content[1].text, <<"internal error">>)

\* C8: every tool invocation ends by returning one tool result; when the
\* backend fails (error status, network failure, timeout, malformed body)
\* the result is an error result, never an uncaught failure.
C8_EveryCallReturnsAResult ==
  /\ [](\A c \in Sequential :
          /\ calls[c].pc = "awaiting" => calls[c].result = NoResult
          /\ Done(c) => /\ IsToolResult(calls[c].result)
                        /\ Len(calls[c].result.content) = 1
                        /\ (BackendFailed(calls[c].reply) => calls[c].result.isError))
  /\ \A c \in Sequential : (calls[c].pc = "awaiting") ~> Done(c)

C8_Witness ==
  \E c \in DOMAIN calls :
    /\ Done(c) /\ calls[c].reply.type = "failure"
    /\ calls[c].reply.exc.type = "ReadTimeout"
    /\ IsTextError(calls[c].result)

\* C9: an invocation whose name is none of the four tools returns an error
\* result whose text names the tool, sends no backend request and leaves
\* the latest session initialization as it was.
C9_UnknownToolRejected ==
  \A c \in DOMAIN calls :
    (Started(c) /\ calls[c].name \notin {INICIALIZAR, LISTAR, COLUMNAS, CONSULTAR})
    => /\ Done(c)
       /\ ~Sent(c)
       /\ IsTextError(calls[c].result)
       /\ HasSub(calls[c].result.content[1].text, <<calls[c].name>>)
       /\ lastInit = calls[c].prior

C9_Witness ==
  \E c \in DOMAIN calls :
    /\ Done(c) /\ calls[c].name = "exportar_reporte"
    /\ calls[c].arguments = [company |-> Str(EN)]
    /\ calls[c].result.isError

\* C10 (as stated): a backend call of get_columns or run_report made after
\* a session id is known carries that id in a header; made while no session
\* was initialized it carries no such header.
C10_SessionHeaderForwarded ==
  \A c \in DOMAIN calls :
    (Started(c) /\ calls[c].name \in {COLUMNAS, CONSULTAR} /\ Sent(c))
    => /\ (SessionIdKnown(c)
             => \E h \in calls[c].request.headers :
                  h.value = Field(calls[c].prior.data, "session_id"))
       /\ (calls[c].prior = NoSession => calls[c].request.headers = {})

\* C10 (amended): no backend call of get_columns or run_report carries a
\* session header, whether or not a session id is known.
C10_NoSessionHeader ==
  \A c \in DOMAIN calls :
    (Started(c) /\ calls[c].name \in {COLUMNAS, CONSULTAR} /\ Sent(c))
    => calls[c].request.headers = {}

C10_Witness ==
  \E c \in DOMAIN calls :
    /\ Started(c) /\ calls[c].name = COLUMNAS /\ Sent(c) /\ SessionIdKnown(c)
    /\ calls[c].request.headers = {}


\* The company argument is a non-empty string.
CompanySupplied(arguments) ==
  /\ ~NoCompanyArg(arguments)
  /\ IsStr(ArgsOf(arguments).company)
  /\ ArgsOf(arguments).company.s # <<>>

\* The company argument is a string with a character that is no whitespace.
NonBlankCompany(arguments) ==
  /\ CompanySupplied(arguments)
  /\ \E i \in 1..Len(ArgsOf(arguments).company.s) :
       ArgsOf(arguments).company.s[i] \notin Whitespace

\* Two invocations sent the same request (or both none) and, when the
\* backend treated both alike, returned the same result.
Alike(a, b) ==
  /\ a.request = b.request
  /\ a.nreq = b.nreq
  /\ (a.pc = "done" /\ b.pc = "done" /\ a.reply = b.reply => a.result = b.result)

SessionStore == [k \in SessionFields \cap DOMAIN globals |-> globals[k]]

\* Tasks c and d ran initialize_session at the same time (each was invoked
\* before the other had returned) and both succeeded.
OverlappingInits(c, d) ==
  /\ c # d
  /\ Done(c) /\ Done(d)
  /\ calls[c].name = INICIALIZAR /\ calls[d].name = INICIALIZAR
  /\ NonBlankCompany(calls[c].arguments) /\ NonBlankCompany(calls[d].arguments)
  /\ IsJsonResult(calls[c].result) /\ IsJsonResult(calls[d].result)
  /\ calls[c].prior = NoSession /\ calls[d].prior = NoSession

\* C12 (as stated): after two initialize_session calls that were in flight
\* at the same time have completed, the session data held by the process is
\* that of the call whose response completed last.
C12_LastWriterWins ==
  \A c, d \in DOMAIN calls :
    OverlappingInits(c, d)
    => \A k \in SessionFields \cap DOMAIN lastInit.data.o :
         SameField(Obj(SessionStore), lastInit.data, k)

\* C12 (amended): after two initialize_session calls that were in flight at
\* the same time have completed, the process holds the session data of
\* neither; each call has returned the response to its own request,
\* whichever completed last.
C12_NoWriter ==
  \A c, d \in DOMAIN calls :
    OverlappingInits(c, d)
    => /\ DOMAIN SessionStore = {}
       /\ globals = InitialGlobals
       /\ calls[c].result.content[1].json = calls[c].reply.response.json
       /\ calls[d].result.content[1].json = calls[d].reply.response.json

C12_Witness ==
  \E c, d \in DOMAIN calls :
    /\ OverlappingInits(c, d)
    /\ calls[c].reply.response.json = InitWithId
    /\ calls[d].reply.response.json = InitWithoutId
    /\ lastInit.data = InitWithId
    /\ calls[d].result.content[1].json = InitWithoutId
    /\ DOMAIN SessionStore = {}

\* Task c returns an error result in this step.
ReturnsError(c) ==
  /\ calls'[c].pc = "done"
  /\ calls'[c] # calls[c]
  /\ IsError(calls'[c].result)

\* C13: a tool call that ends in an error result (invalid input, error
\* status, transport or other failure) leaves the session data of the
\* process, and the latest successful session initialization, as they were.
C13_ErrorKeepsSession ==
  [][\A c \in DOMAIN calls :
       ReturnsError(c)
       => /\ SessionStore' = SessionStore
          /\ globals' = globals
          /\ lastInit' = lastInit]_vars

C13_Witness ==
  \E c \in DOMAIN calls :
    /\ Done(c) /\ AfterInit(c)
    /\ calls[c].name = CONSULTAR
    /\ calls[c].reply.type = "response"
    /\ calls[c].reply.response.status = 500
    /\ IsError(calls[c].result)
    /\ lastInit = calls[c].prior
    /\ globals = InitialGlobals


\* The backend answered the request of call a with a JSON body.
AnsweredWithJson(a) ==
  /\ a.pc = "done"
  /\ a.reply.type = "response"
  /\ IsSuccess(a.reply.response.status)
  /\ a.reply.response.json # NotJSON

\* C14: two list_reports(company=C) calls, one after the other or
\* overlapping, that get the same backend response return the same
\* available_queries, in content and order.
C14_ListTwiceSameQueries ==
  \A c, d \in DOMAIN calls :
    (c # d /\ calls[c].pc = "done" /\ calls[d].pc = "done"
       /\ calls[c].name = LISTAR /\ calls[d].name = LISTAR
       /\ NonBlankCompany(calls[c].arguments)
       /\ calls[c].arguments = calls[d].arguments
       /\ AnsweredWithJson(calls[c])
       /\ calls[c].reply = calls[d].reply)
    => /\ IsJsonResult(calls[c].result) /\ IsJsonResult(calls[d].result)
       /\ SameField(calls[c].result.content[1].json,
                    calls[d].result.content[1].json, "available_queries")

C14_Witness ==
  \E c, d \in DOMAIN calls :
    /\ c # d /\ Done(c) /\ Done(d)
    /\ calls[c].name = LISTAR /\ calls[d].name = LISTAR
    /\ calls[c].arguments = [company |-> Str(EN)]
    /\ calls[d].arguments = [company |-> Str(EN)]
    /\ calls[c].prior = NoSession
    /\ calls[d].prior # NoSession
    /\ calls[d].prior.data = calls[c].result.content[1].json
    /\ calls[c].reply.response.json = InitWithId
    /\ calls[d].reply = calls[c].reply
    /\ calls[d].result.content[1].json.o.available_queries
         = <<SalesReport, StockReport>>

\* C15: when the backend answers get_columns or run_report with a JSON
\* body, the tool result is a success payload equal to that body; the
\* request body of run_report has the single field pregunta, set to the
\* question.
C15_PassThrough ==
  \A c \in DOMAIN calls :
    /\ (calls[c].pc = "done" /\ calls[c].name \in {COLUMNAS, CONSULTAR}
          /\ AnsweredWithJson(calls[c]))
       => /\ IsJsonResult(calls[c].result)
          /\ calls[c].result.content[1].json = calls[c].reply.response.json
    /\ (Started(c) /\ calls[c].name = CONSULTAR)
       => /\ Sent(c)
          /\ calls[c].request.method = "POST"
          /\ calls[c].request.path = "/consultar_reporte"
          /\ DOMAIN calls[c].request.json = {"pregunta"}
          /\ ("pregunta" \in DOMAIN ArgsOf(calls[c].arguments)
                => calls[c].request.json.pregunta
                     = ArgsOf(calls[c].arguments).pregunta)

C15_Witness ==
  \E c \in DOMAIN calls :
    /\ Done(c) /\ calls[c].name = CONSULTAR
    /\ calls[c].arguments = [pregunta |-> Str(<<"Q">>)]
    /\ calls[c].request.json = [pregunta |-> Str(<<"Q">>)]
    /\ calls[c].reply.response.json = OtherData
    /\ calls[c].result = JsonResult(OtherData)

\* C17: every invocation sends at most one backend request: a request that
\* failed is not sent again, and an invocation that returns without the
\* backend (rejected, unknown tool, warning) sends none.
C17_AtMostOneRequest ==
  \A c \in DOMAIN calls :
    Started(c)
    => /\ calls[c].nreq \in {0, 1}
       /\ (Sent(c) <=> calls[c].nreq = 1)
       /\ (calls[c].pc = "done" /\ BackendFailed(calls[c].reply)
             => calls[c].nreq = 1)
       /\ (calls[c].pc = "done" /\ calls[c].reply = NoReply
             => calls[c].nreq = 0)

C17_Witness ==
  \E c \in DOMAIN calls :
    /\ Done(c) /\ calls[c].name = COLUMNAS
    /\ calls[c].reply.type = "failure"
    /\ calls[c].reply.exc.type = "ConnectError"
    /\ calls[c].nreq = 1


\* A step in which a session initialization (initialize_session, or
\* list_reports with a company) returns successfully.
InitSucceeds ==
  \E c \in DOMAIN calls :
    /\ calls[c].pc = "awaiting"
    /\ calls[c].request.path = "/inicializar_sesion"
    /\ calls'[c].pc = "done"
    /\ IsJsonResult(calls'[c].result)

\* C18: the session data of the process is empty at the start and no step
\* other than a successful session initialization changes it; in
\* particular get_columns, run_report and list_reports without a company
\* leave it as it was, whatever the backend returns.
C18_OnlyInitMayChangeSession ==
  /\ DOMAIN SessionStore = {}
  /\ [][~InitSucceeds => SessionStore' = SessionStore]_vars

C18_Witness ==
  \E c \in DOMAIN calls :
    /\ Done(c) /\ calls[c].name = COLUMNAS
    /\ AnsweredWithJson(calls[c])
    /\ calls[c].prior = NoSession /\ lastInit = NoSession
    /\ DOMAIN SessionStore = {}

\* The request that name and arguments alone determine.
RequestFor(name, arguments) ==
  LET s == Start(name, ArgsOf(arguments)) IN
  IF s.kind = "await" THEN s.request ELSE NoRequest

\* The result that name, arguments and the backend's reply alone determine.
ResultFor(name, arguments, reply) ==
  LET s == Start(name, ArgsOf(arguments)) IN
  CASE s.kind = "return" -> s.result
    [] s.kind = "raise" -> Handle(s.exc)
    [] s.kind = "await" /\ reply.type = "response" -> Finish(ReadJson(reply.response))
    [] s.kind = "await" /\ reply.type = "failure" ->
         Finish([kind |-> "raise", exc |-> reply.exc])

\* C19: the request an invocation sends depends only on the tool name and
\* its arguments, and its result only on these and on the backend's reply
\* to it: two invocations with the same name and arguments send the same
\* request and, for the same reply, return the same result, whatever was
\* called before or runs at the same time; the module-level data is never
\* written.
C19_CallsAreIndependent ==
  /\ globals = InitialGlobals
  /\ \A c \in DOMAIN calls :
       Started(c)
       => /\ calls[c].request = RequestFor(calls[c].name, calls[c].arguments)
          /\ (Done(c) => calls[c].result
                = ResultFor(calls[c].name, calls[c].arguments, calls[c].reply))
  /\ \A c, d \in DOMAIN calls :
       (Started(c) /\ Started(d) /\ calls[c].name = calls[d].name
          /\ calls[c].arguments = calls[d].arguments)
       => Alike(calls[c], calls[d])

C19_Witness ==
  \E c, d \in DOMAIN calls :
    /\ Done(c) /\ Done(d)
    /\ calls[c].name = INICIALIZAR /\ calls[c].arguments = [company |-> Str(EN)]
    /\ calls[c].reply.type = "response"
    /\ calls[c].reply.response.json = InitWithId
    /\ calls[d].name = COLUMNAS
    /\ calls[d].arguments = [objectid |-> Str(<<"X">>)]
    /\ calls[d].prior # NoSession
    /\ calls[d].request.params.company = Null
    /\ calls[d].reply.type = "response"
    /\ calls[d].result = JsonResult(OtherData)

\* The company argument is missing, null, empty or only whitespace.
BlankCompany(arguments) ==
  \/ NoCompanyArg(arguments)
  \/ ArgsOf(arguments).company = Null
  \/ /\ IsStr(ArgsOf(arguments).company)
     /\ \A i \in 1..Len(ArgsOf(arguments).company.s) :
          ArgsOf(arguments).company.s[i] \in Whitespace

\* t is s without its leading and trailing whitespace.
IsTrimOf(t, s) ==
  /\ t # <<>> => t[1] \notin Whitespace /\ t[Len(t)] \notin Whitespace
  /\ \E i \in 1..(Len(s) + 1) :
       /\ i + Len(t) - 1 <= Len(s)
       /\ SubSeq(s, i, i + Len(t) - 1) = t
       /\ \A j \in 1..Len(s) :
            (j < i \/ j > i + Len(t) - 1) => s[j] \in Whitespace

\* C20: a company string is sent trimmed; listar_reportes with a company
\* that is missing, null, empty or only whitespace returns the warning
\* payload without a request, and inicializar_sesion with an empty or
\* only-whitespace company sends POST /inicializar_sesion with company "".
C20_BlankCompany ==
  \A c \in DOMAIN calls :
    /\ (Started(c) /\ calls[c].name = LISTAR /\ BlankCompany(calls[c].arguments))
       => /\ Done(c)
          /\ ~Sent(c)
          /\ calls[c].result = JsonResult(WarningPayload)
    /\ (Started(c) /\ calls[c].name = INICIALIZAR
          /\ ~NoCompanyArg(calls[c].arguments)
          /\ IsStr(ArgsOf(calls[c].arguments).company)
          /\ BlankCompany(calls[c].arguments))
       => /\ Sent(c)
          /\ calls[c].request.method = "POST"
          /\ calls[c].request.path = "/inicializar_sesion"
          /\ calls[c].request.json = [company |-> Str(<<>>)]
    /\ (Started(c) /\ calls[c].name \in {INICIALIZAR, LISTAR} /\ Sent(c)
          /\ ~NoCompanyArg(calls[c].arguments))
       => /\ IsStr(ArgsOf(calls[c].arguments).company)
          /\ IsStr(calls[c].request.json.company)
          /\ IsTrimOf(calls[c].request.json.company.s,
                      ArgsOf(calls[c].arguments).company.s)

C20_Witness ==
  \E c \in DOMAIN calls :
    /\ calls[c].pc = "awaiting" /\ calls[c].name = INICIALIZAR
    /\ calls[c].arguments = [company |-> Str(<<" ">>)]
    /\ calls[c].request.json.company = Str(<<>>)

====
